---- MODULE Spec2Model ----
(***************************************************************************)
(* Model of the event-scoring pipeline (services/celery/tasks) and of the  *)
(* Redis cache / score managers (services/cache, services/redis) of the    *)
(* dandelion_test backend.                                                 *)
(*                                                                         *)
(* Text (Redis keys, Redis values, JSON payloads) is modelled as sequences *)
(* of lexemes: one-character strings for keys and numbers, whole strings   *)
(* for JSON names and string contents.                                     *)
(***************************************************************************)
EXTENDS Integers, Sequences, FiniteSets, TLC

\* ------------------------------------------------------------------ bounds
Workers == {"w1", "w2"}
UserIds == {1, 2}
MaxDispatch == 2
Levels == {-25, 10}

\* --------------------------------------------------------- enums (values)
LOGIN == "login"
COMPLETE_LEVEL == "complete_level"
FIND_SECRET == "find_secret"
\* a value outside EventTypeEnum
LOGOUT == "logout"
EventTypes == {LOGIN, COMPLETE_LEVEL, FIND_SECRET, LOGOUT}

\* AchievementsEnum members (their values are the Russian display names)
BEGINNER == "BEGINNER"
RESEARCHER == "RESEARCHER"
MASTER == "MASTER"
AchievementNames == {BEGINNER, RESEARCHER, MASTER}
\* Python None where a name or another scalar is expected
None == "None"
\* Python None where text (str / bytes) is expected
NoneText == <<"None">>

\* --------------------------------------------------------------- text
Digits == <<"0", "1", "2", "3", "4", "5", "6", "7", "8", "9">>

RECURSIVE IntToStr(_)
\* str(n) / f"{n}" for an int: a sign when negative, then the decimal digits,
\* most significant first
IntToStr(n) ==
    IF n < 0 THEN <<"-">> \o IntToStr(0 - n)
    ELSE IF n < 10 THEN <<Digits[n + 1]>>
    ELSE IntToStr(n \div 10) \o <<Digits[(n % 10) + 1]>>

DigitValue(c) == CHOOSE d \in 0..9 : Digits[d + 1] = c

IsDigit(c) == \E d \in 0..9 : Digits[d + 1] = c

RECURSIVE StrToInt(_)
\* int(s) for a non-empty run of decimal digits, with or without a sign
StrToInt(s) ==
    IF s[1] = "-" THEN 0 - StrToInt(Tail(s))
    ELSE IF Len(s) = 1 THEN DigitValue(s[1])
    ELSE 10 * StrToInt(SubSeq(s, 1, Len(s) - 1)) + DigitValue(s[Len(s)])

\* RedisManager.create_key: f"user:{user_id}:{add_key}"
create_key(user_id, add_key) ==
    <<"u", "s", "e", "r", ":">> \o IntToStr(user_id) \o <<":">> \o add_key

SCORES == <<"s", "c", "o", "r", "e", "s">>

\* ------------------------------------------------------------ Redis store
\* An entry is [value |-> text, ttl |-> seconds], ttl = -1 meaning no expiry.
NoExpiry == -1

Present(store, key) == key \in DOMAIN store

\* GET key
RedisGet(store, key) == IF Present(store, key) THEN store[key].value ELSE NoneText

\* a SET where INCRBY was meant
IncrbySet(store, key, n) ==
    (key :> [value |-> IntToStr(n), ttl |-> NoExpiry]) @@ store

\* INCRBY key n: an absent key counts as 0; the entry keeps its ttl
Incrby(store, key, n) ==
    LET old == IF Present(store, key) THEN StrToInt(store[key].value) ELSE 0
        t == IF Present(store, key) THEN store[key].ttl ELSE NoExpiry
    IN (key :> [value |-> IntToStr(old + n), ttl |-> t]) @@ store

\* RedisManager.get_scores: "if scores: return int(scores)" else 0
get_scores(store, user_id) ==
    LET scores_raw == RedisGet(store, create_key(user_id, SCORES))
    IN IF scores_raw # NoneText /\ Len(scores_raw) > 0 THEN StrToInt(scores_raw) ELSE 0

\* a read that clears the expiry of the entry it reads (GETEX key PERSIST)
AfterGetPersist(store, key) ==
    [k \in DOMAIN store |->
        IF k = key THEN [store[k] EXCEPT !.ttl = NoExpiry] ELSE store[k]]

\* the store after GET key: the command reads, every entry and every ttl
\* stays as it was
AfterGet(store, key) == store

\* a SET that drops the expiry it was given
RedisSetNoExpiry(store, key, value, exp) ==
    (key :> [value |-> value, ttl |-> NoExpiry]) @@ store

\* SET key value [EX exp]: the entry is replaced, its ttl with it
RedisSet(store, key, value, exp) ==
    (key :> [value |-> value, ttl |-> exp]) @@ store

\* one second passes: entries with a ttl lose a second, or expire
ExpireStep(store) ==
    LET live == {k \in DOMAIN store : store[k].ttl # 1}
    IN [k \in live |->
           IF store[k].ttl = NoExpiry THEN store[k]
           ELSE [store[k] EXCEPT !.ttl = @ - 1]]

RECURSIVE GlobMatch(_, _)
\* the glob match of KEYS: "*" stands for any run of characters, "?" for
\* one character, any other character for itself
GlobMatch(pattern, text) ==
    IF pattern = << >> THEN text = << >>
    ELSE IF pattern[1] = "*"
    THEN \/ GlobMatch(Tail(pattern), text)
         \/ text # << >> /\ GlobMatch(pattern, Tail(text))
    ELSE /\ text # << >>
         /\ pattern[1] = "?" \/ pattern[1] = text[1]
         /\ GlobMatch(Tail(pattern), Tail(text))

\* KEYS pattern
RedisKeys(store, pattern) == {k \in DOMAIN store : GlobMatch(pattern, k)}

\* the arguments of a command: a key, or a Python list of keys
KeyArg(k) == [kind |-> "key", keys |-> {k}]
ListArg(ks) == [kind |-> "list", keys |-> ks]

\* an encoder that flattens a list into its members
EncodesLists(arg) == TRUE

\* the client encodes bytes, str, int and float arguments and raises
\* DataError for any other type
Encodes(arg) == arg.kind # "list"

\* DEL arg [arg ...]: [ok |-> the command was sent, store |-> the store then]
RedisDelete(store, args) ==
    [ok |-> \A a \in args : Encodes(a),
     store |-> [k \in DOMAIN store \ UNION {a.keys : a \in args} |-> store[k]]]

\* FLUSHDB: every key of the database is removed
Flushdb(store) == << >>

\* ------------------------------------------------- Python values and JSON
\* Optional[int | str] as it reaches the key builder
PyNone == [kind |-> "none", n |-> 0, s |-> << >>]
PyInt(n) == [kind |-> "int", n |-> n, s |-> << >>]
PyStr(s) == [kind |-> "str", n |-> 0, s |-> s]

\* bool(v): None, 0 and "" are false
Truthy(v) ==
    CASE v.kind = "none" -> FALSE
      [] v.kind = "int" -> v.n # 0
      [] v.kind = "str" -> Len(v.s) > 0

\* f"{v}" of an int or a str
Format(v) == IF v.kind = "int" THEN IntToStr(v.n) ELSE v.s

\* field values of a schema instance
StrValue(s) == [t |-> "str", s |-> s, n |-> 0]
IntValue(n) == [t |-> "int", s |-> "", n |-> n]

\* schemas derived from ABCSchema: field names in declaration order
TestModel == "TestModel"
EmptySchema == "EmptySchema"
PayloadSchema == "PayloadSchema"
Schemas == {TestModel, EmptySchema, PayloadSchema}

SchemaFields(schema) ==
    CASE schema = TestModel -> <<"name", "value">>
      [] schema = PayloadSchema -> <<"id">>
      [] OTHER -> << >>

FieldType(schema, field) == IF field \in {"name", "id"} THEN "str" ELSE "int"

\* a dict with no key
EmptyDict == [k \in {} |-> IntValue(0)]

\* Optional[Dict[str, Any]]
NoneDict == [none |-> TRUE, d |-> EmptyDict]
SomeDict(d) == [none |-> FALSE, d |-> d]

\* a test that takes every answer of get_cache for a hit
TruthyAlways(od) == TRUE

\* "if cache_data:": neither None nor an empty dict
TruthyDict(od) == ~od.none /\ DOMAIN od.d # {}

\* model.model_dump()
model_dump(inst) == inst.data

\* a serializer that writes numbers as strings
JsonValueQuoted(v) ==
    IF v.t = "str" THEN <<"\"", v.s, "\"">> ELSE <<"\"">> \o IntToStr(v.n) \o <<"\"">>

\* the JSON lexemes of one value
JsonValue(v) ==
    IF v.t = "str" THEN <<"\"", v.s, "\"">> ELSE IntToStr(v.n)

RECURSIVE JsonMembers(_, _, _)
JsonMembers(inst, fields, i) ==
    IF i > Len(fields) THEN << >>
    ELSE (IF i > 1 THEN <<",">> ELSE << >>)
         \o <<"\"", fields[i], "\"", ":">>
         \o JsonValue(inst.data[fields[i]])
         \o JsonMembers(inst, fields, i + 1)

\* model.model_dump_json(): the fields in declaration order
model_dump_json(inst) ==
    <<"{">> \o JsonMembers(inst, SchemaFields(inst.schema), 1) \o <<"}">>

RECURSIVE DigitRun(_, _)
\* the index after the run of digits that starts at i
DigitRun(text, i) ==
    IF i <= Len(text) /\ IsDigit(text[i]) THEN DigitRun(text, i + 1) ELSE i

RECURSIVE ParseMembers(_, _, _)
\* json.loads inside an object, from lexeme i on: [ok, d]
ParseMembers(text, i, acc) ==
    IF i > Len(text) THEN [ok |-> FALSE, d |-> acc]
    ELSE IF text[i] = "}" THEN [ok |-> i = Len(text), d |-> acc]
    ELSE IF text[i] = "," THEN ParseMembers(text, i + 1, acc)
    ELSE IF i + 4 > Len(text) \/ text[i] # "\"" \/ text[i + 2] # "\""
            \/ text[i + 3] # ":"
    THEN [ok |-> FALSE, d |-> acc]
    ELSE LET name == text[i + 1]
             j == i + 4
         IN IF text[j] = "\""
            THEN IF j + 2 <= Len(text) /\ text[j + 2] = "\""
                 THEN ParseMembers(text, j + 3,
                                   (name :> StrValue(text[j + 1])) @@ acc)
                 ELSE [ok |-> FALSE, d |-> acc]
            ELSE LET e == DigitRun(text, j)
                 IN IF e = j THEN [ok |-> FALSE, d |-> acc]
                    ELSE ParseMembers(text, e,
                             (name :> IntValue(StrToInt(SubSeq(text, j, e - 1)))) @@ acc)

\* json.loads(data) of an object: [ok |-> it parsed, d |-> the dict]
JsonLoads(text) ==
    IF Len(text) >= 2 /\ text[1] = "{"
    THEN ParseMembers(text, 2, EmptyDict)
    ELSE [ok |-> FALSE, d |-> EmptyDict]

\* dto_model(**cache_data): [ok |-> it validated, inst |-> the instance]
Validate(schema, d) ==
    LET fields == {SchemaFields(schema)[i] : i \in 1..Len(SchemaFields(schema))}
    IN [ok |-> /\ fields \subseteq DOMAIN d
               /\ \A f \in fields : d[f].t = FieldType(schema, f),
        inst |-> [schema |-> schema,
                  data |-> [f \in fields \cap DOMAIN d |-> d[f]]]]

\* ------------------------------------------------------ RedisCacheManager
\* a prefix pattern without the "://" that ends it
BarePrefixPattern(prefix) == <<":">> \o prefix

\* _create_cache_prefix_pattern: f":{prefix}://"
create_cache_prefix_pattern(prefix) == <<":">> \o prefix \o <<":", "/", "/">>

\* _create_user_pattern: f"user:{user_id}:"
create_user_pattern(user_id) ==
    <<"u", "s", "e", "r", ":">> \o Format(user_id) \o <<":">>

\* a key made of the user segment and the qualifier alone
UserQualifierKey(prefix, func_name, additional_key, user_id) ==
    (IF Truthy(user_id) THEN create_user_pattern(user_id) ELSE << >>)
    \o (IF Truthy(additional_key) THEN additional_key.s ELSE << >>)

\* _generate_handler_key
generate_handler_key(prefix, func_name, additional_key, user_id) ==
    create_cache_prefix_pattern(prefix) \o func_name \o <<":">>
    \o (IF Truthy(user_id) THEN create_user_pattern(user_id) ELSE << >>)
    \o (IF Truthy(additional_key) THEN additional_key.s ELSE << >>)

\* get_cache(key) when the store answers: the parsed payload, or None for an
\* absent or empty value and for a payload json.loads rejects
get_cache(store, key) ==
    LET data == RedisGet(store, key)
    IN IF data # NoneText /\ Len(data) > 0
       THEN (IF JsonLoads(data).ok THEN SomeDict(JsonLoads(data).d) ELSE NoneDict)
       ELSE NoneDict

\* get_cache's "except Exception": the error is logged and None returned
GetCacheReraises == "raise"

GetCacheExcept == "log"

\* invalidate_by_prefix: the pattern of KEYS, f"*{cache_prefix}*"
PrefixScanPattern(prefix) ==
    <<"*">> \o create_cache_prefix_pattern(prefix) \o <<"*">>

\* invalidate_by_user: the pattern of KEYS, f"*:{user_cache_pattern}:*"
UserScanPattern(user_id) ==
    <<"*", ":">> \o create_user_pattern(user_id) \o <<":", "*">>

\* an invalidation whose "except Exception" raises again
InvalidateReraises == "raise"

\* the "except Exception" of invalidate_all, invalidate_by_prefix and
\* invalidate_by_user: the error is logged and the method returns
InvalidateExcept == "log"

\* a set_cache whose "except Exception" raises again
SetCacheReraises == "raise"

\* set_cache's "except Exception": the TypeError of a value that is no
\* ABCSchema, or the store's error, is logged and set_cache returns
SetCacheExcept == "log"

\* ------------------------------------------------------ relational store
Pairs == UserIds \X AchievementNames

\* a table without the constraint
NoUniqueConstraint(table, row) == FALSE

\* UniqueConstraint("user_id", "name") of table achievements: an INSERT of
\* a row whose (user_id, name) is already committed is rejected
UniqueViolation(table, row) == table[row] >= 1

\* ABCRepository.check_existing(filters): a committed row matches
check_existing(table, row) == table[row] >= 1

\* ----------------------------------------------------------- process_event
\* a match statement that awards Master only with a delta above zero
MatchAwardsScored(event_type, level) ==
    CASE event_type = LOGIN -> [scores |-> 5, achievement |-> BEGINNER]
      [] event_type = FIND_SECRET -> [scores |-> 50, achievement |-> RESEARCHER]
      [] event_type = COMPLETE_LEVEL ->
             [scores |-> 20 + level,
              achievement |-> IF 20 + level > 0 THEN MASTER ELSE None]
      [] OTHER -> [scores |-> 0, achievement |-> None]

\* the match statement of process_event: (scores, achievement)
MatchNoDefault(event_type, level) ==
    CASE event_type = FIND_SECRET -> [scores |-> 50, achievement |-> RESEARCHER]
      [] event_type = COMPLETE_LEVEL -> [scores |-> 20 + level, achievement |-> MASTER]
      [] OTHER -> [scores |-> 5, achievement |-> BEGINNER]

\* a match statement that forgets the level
MatchFlatLevel(event_type, level) ==
    CASE event_type = LOGIN -> [scores |-> 5, achievement |-> BEGINNER]
      [] event_type = FIND_SECRET -> [scores |-> 50, achievement |-> RESEARCHER]
      [] event_type = COMPLETE_LEVEL -> [scores |-> 20, achievement |-> MASTER]
      [] OTHER -> [scores |-> 0, achievement |-> None]

Match(event_type, level) ==
    CASE event_type = LOGIN -> [scores |-> 5, achievement |-> BEGINNER]
      [] event_type = FIND_SECRET -> [scores |-> 50, achievement |-> RESEARCHER]
      [] event_type = COMPLETE_LEVEL -> [scores |-> 20 + level, achievement |-> MASTER]
      [] OTHER -> [scores |-> 0, achievement |-> None]

\* a test that lets no delta through
ScoresNever(n) == FALSE

\* a test that lets every delta but 0 through
ScoresNonZero(n) == n # 0

\* process_event: "if scores > 0" before update_scores
ScoresPositive(n) == n > 0

Items == [event_type : EventTypes, user_id : UserIds, level : Levels]
NoItem == [event_type |-> None, user_id |-> 0, level |-> 0]

VARIABLES
    redis,          \* the Redis database CACHE_API_DB
    achievements,   \* committed rows of table achievements: pair -> count
    pending,        \* worker -> rows added to its open session
    notifications,  \* pair -> number of notifications logged
    queue,          \* broker queue of process_event work items
    dispatched,     \* number of work items put on the queue so far
    pc,             \* worker -> position in process_event
    item,           \* worker -> work item being processed
    scores,         \* worker -> local "scores"
    achievement,    \* worker -> local "achievement"
    is_exist,       \* worker -> result of check_user_achievement
    err,            \* worker -> exception the task ended with
    applied,        \* history: worker -> change its INCRBY made to the score
    notified,       \* history: worker -> this item logged a notification
    redo,           \* history: worker -> its item had completed before
    completed,      \* history: items that completed without error
    delta_sum,      \* history: user -> sum of the deltas of received items
    any_failed,     \* history: some received item ended with an exception
    handler_pc,     \* caller -> position in cache_handler
    call,           \* caller -> arguments of its cache_handler call
    cache_key,      \* caller -> local "cache_key"
    result,         \* caller -> local "result"
    raised,         \* caller -> exception cache_handler ended with
    calls,          \* number of cache_handler calls made so far
    invoked,        \* history: caller -> times this call ran func
    hit_read,       \* history: caller -> GET gave the payload an equal call stored
    get_failed,     \* history: caller -> the store failed this call's GET
    wrote,          \* history: caller -> this call's SET reached the store
    writer,         \* history: key -> arguments of the call that stored it
    inv,            \* history: the last invalidation call and how it ended
    inv_calls,      \* number of invalidation calls made so far
    events,         \* committed rows of table events, in created_at order
    req,            \* the POST /v1/events/event request being served
    stats,          \* the GET /v1/users/stats request being served
    tx              \* the call of a session_decorator-wrapped function

pipeline_vars ==
    <<achievements, pending, notifications, queue, dispatched, pc, item,
      scores, achievement, is_exist, err, applied, notified, redo, completed,
      delta_sum, any_failed>>

inv_vars == <<inv, inv_calls>>

cache_vars ==
    <<handler_pc, call, cache_key, result, raised, calls, invoked, hit_read,
      get_failed, wrote, writer, inv_vars>>

api_vars == <<events, req, stats, tx>>

vars == <<redis, pipeline_vars, cache_vars, api_vars>>

\* no work item dispatched, every worker idle
WorkersInit ==
    /\ pending = [w \in Workers |-> {}]
    /\ notifications = [p \in Pairs |-> 0]
    /\ queue = <<>>
    /\ dispatched = 0
    /\ pc = [w \in Workers |-> "idle"]
    /\ item = [w \in Workers |-> NoItem]
    /\ scores = [w \in Workers |-> 0]
    /\ achievement = [w \in Workers |-> None]
    /\ is_exist = [w \in Workers |-> FALSE]
    /\ err = [w \in Workers |-> None]
    /\ applied = [w \in Workers |-> 0]
    /\ notified = [w \in Workers |-> FALSE]
    /\ redo = [w \in Workers |-> FALSE]
    /\ completed = {}
    /\ delta_sum = [u \in UserIds |-> 0]
    /\ any_failed = FALSE

PipelineInit ==
    /\ achievements = [p \in Pairs |-> 0]
    /\ WorkersInit

\* ------------------------------------------------ cache_handler callers
Callers == {"c1", "c2"}
MaxCalls == 2

\* the cached operations: func.__name__ and the schema func returns
func_for_cache_test == [name |-> <<"f">>, returns |-> TestModel]
func_empty == [name |-> <<"g">>, returns |-> EmptySchema]
\* a function of another module whose __name__ is that of func_for_cache_test
func_payload == [name |-> <<"f">>, returns |-> PayloadSchema]
\* an operation that returns a plain dict, not an ABCSchema
PlainDict == "dict"
func_plain == [name |-> <<"h">>, returns |-> PlainDict]
Funcs == {func_for_cache_test, func_empty, func_plain}

\* (name, value) arguments passed on to func
ArgTuples == {<<"a", 0>>, <<"b", 10>>}
Prefixes == {<<"a", "p", "i">>, <<"t">>}
UserIdArgs == {PyNone, PyInt(1)}
AdditionalKeys == {PyNone, PyStr(<<"k">>)}
\* expire: None (no expiry) or seconds
Expires == {NoExpiry, 2}

\* await func(*args, **kwargs)
OperationResult(f, args) ==
    CASE f.returns = TestModel ->
             [schema |-> TestModel,
              data |-> ("name" :> StrValue(args[1])) @@ ("value" :> IntValue(args[2]))]
      [] f.returns = PayloadSchema ->
             [schema |-> PayloadSchema, data |-> ("id" :> StrValue(args[1]))]
      [] OTHER -> [schema |-> f.returns, data |-> EmptyDict]

\* a check that lets every value pass
IsAnyValue(data) == TRUE

\* isinstance(data, ABCSchema)
IsABCSchema(data) == data.schema \in Schemas

\* the argument lists of cache_handler: dto_model is the schema func returns
\* (func: Callable[..., Awaitable[S]], dto_model: Type[S]); func_plain breaks
\* its annotation
Calls ==
    {a \in [func : Funcs, dto_model : Schemas, args : ArgTuples,
            expire : Expires, prefix : Prefixes, user_id : UserIdArgs,
            additional_key : AdditionalKeys] :
        /\ a.func # func_plain => a.dto_model = a.func.returns
        /\ a.func = func_empty => a.args = <<"a", 0>>
        /\ a.func = func_plain =>
              /\ a.dto_model = TestModel /\ a.args = <<"a", 0>>
              /\ a.expire = NoExpiry /\ a.user_id = PyNone}

\* the calls concurrent callers make: one prefix, no additional key
SharedCalls ==
    {a \in Calls : a.prefix = <<"a", "p", "i">> /\ a.additional_key = PyNone}
NoCall ==
    [func |-> [name |-> << >>, returns |-> None], dto_model |-> None,
     args |-> <<"", 0>>, expire |-> NoExpiry, prefix |-> << >>,
     user_id |-> PyNone, additional_key |-> PyNone]
NoResult == [schema |-> None, data |-> EmptyDict]

NoInvalidation ==
    [op |-> None, prefix |-> << >>, user_id |-> PyNone, outcome |-> None]

CacheInit ==
    /\ handler_pc = [c \in Callers |-> "idle"]
    /\ call = [c \in Callers |-> NoCall]
    /\ cache_key = [c \in Callers |-> << >>]
    /\ result = [c \in Callers |-> NoResult]
    /\ raised = [c \in Callers |-> None]
    /\ calls = 0
    /\ invoked = [c \in Callers |-> 0]
    /\ hit_read = [c \in Callers |-> FALSE]
    /\ get_failed = [c \in Callers |-> FALSE]
    /\ wrote = [c \in Callers |-> FALSE]
    /\ writer = << >>
    /\ inv = NoInvalidation
    /\ inv_calls = 0

\* ---------------------------------------------------------- API requests
NoRow == [user_id |-> 0, event_type |-> None, created_at |-> 0]
NoRequest == [pc |-> "idle", data |-> NoItem, row |-> NoRow, outcome |-> None]
NoResponse == [events |-> << >>, score |-> 0, achievements |-> << >>]
NoStats ==
    [pc |-> "idle", user_id |-> 0, key |-> << >>, events |-> << >>,
     score |-> 0, achievements |-> << >>, response |-> NoResponse,
     from_cache |-> FALSE, get_failed |-> FALSE, raised |-> None]

\* a Python value that is an AsyncSession
AsyncSession == [kind |-> "AsyncSession", n |-> 0, s |-> << >>]

\* no call of a session_decorator-wrapped function is being made
NoTx ==
    [pc |-> "idle", achievement |-> None, user_id |-> 0, how |-> None,
     args |-> << >>, kwargs |-> << >>, session |-> None, own |-> {},
     new |-> {}, opened |-> FALSE, commits |-> FALSE, rollbacks |-> FALSE,
     is_exist |-> FALSE, raised |-> None, outcome |-> None]

ApiInit ==
    /\ events = << >>
    /\ req = NoRequest
    /\ stats = NoStats
    /\ tx = NoTx

Init ==
    /\ redis = << >>
    /\ PipelineInit
    /\ CacheInit
    /\ ApiInit

\* --------------------------------------------------------- work dispatch
\* process_event.delay(event_type, user_id, level): a work item is put on the
\* broker queue; an item equal to an earlier one is also what a redelivery is
Dispatch(it) ==
    /\ dispatched < MaxDispatch
    /\ queue' = Append(queue, it)
    /\ dispatched' = dispatched + 1
    /\ UNCHANGED <<redis, achievements, pending, notifications, pc, item, scores,
                   achievement, is_exist, err, applied, notified, redo, completed,
                   delta_sum, any_failed>>
    /\ UNCHANGED <<cache_vars, api_vars>>

Row(w) == <<item[w].user_id, achievement[w]>>

\* a task that ends after the score step
AfterScoresDone(w) == "done"

\* where process_event goes after the score step
AfterScores(w) == IF achievement[w] # None THEN "check_existing" ELSE "done"

\* a worker takes the next work item and runs the match statement
Receive(w) ==
    /\ pc[w] = "idle"
    /\ queue # <<>>
    /\ LET it == Head(queue)
           m == Match(it.event_type, it.level)
       IN /\ item' = [item EXCEPT ![w] = it]
          /\ scores' = [scores EXCEPT ![w] = m.scores]
          /\ achievement' = [achievement EXCEPT ![w] = m.achievement]
          /\ redo' = [redo EXCEPT ![w] = it \in completed]
          /\ delta_sum' = [delta_sum EXCEPT ![it.user_id] =
                              @ + (IF m.scores > 0 THEN m.scores ELSE 0)]
          /\ pc' = [pc EXCEPT ![w] =
                        IF ScoresPositive(m.scores) THEN "update_scores"
                        ELSE IF m.achievement # None THEN "check_existing"
                        ELSE "done"]
    /\ queue' = Tail(queue)
    /\ is_exist' = [is_exist EXCEPT ![w] = FALSE]
    /\ err' = [err EXCEPT ![w] = None]
    /\ applied' = [applied EXCEPT ![w] = 0]
    /\ notified' = [notified EXCEPT ![w] = FALSE]
    /\ UNCHANGED <<redis, achievements, pending, notifications, dispatched,
                   completed, any_failed>>
    /\ UNCHANGED <<cache_vars, api_vars>>

\* an update_scores that logs the store's error and returns
UpdateScoresSwallows == "log"

\* update_scores' "except Exception": the error is logged, then "raise e"
UpdateScoresExcept == "raise"

\* redis_manager.update_scores(user_id, scores): one INCRBY, or the store's
\* error logged and raised again
UpdateScores(w) ==
    /\ pc[w] = "update_scores"
    /\ \/ /\ redis' = Incrby(redis, create_key(item[w].user_id, SCORES), scores[w])
          /\ applied' = [applied EXCEPT ![w] =
                            get_scores(redis', item[w].user_id)
                            - get_scores(redis, item[w].user_id)]
          /\ pc' = [pc EXCEPT ![w] = AfterScores(w)]
          /\ err' = err
       \/ /\ IF UpdateScoresExcept = "raise"
             THEN /\ pc' = [pc EXCEPT ![w] = "failed"]
                  /\ err' = [err EXCEPT ![w] = "RedisError"]
             ELSE /\ pc' = [pc EXCEPT ![w] = AfterScores(w)]
                  /\ err' = err
          /\ UNCHANGED <<redis, applied>>
    /\ UNCHANGED <<achievements, pending, notifications, queue, dispatched, item,
                   scores, achievement, is_exist, notified, redo, completed,
                   delta_sum, any_failed>>
    /\ UNCHANGED <<cache_vars, api_vars>>

\* check_user_achievement up to the existence check, in a new session
CheckExisting(w) ==
    /\ pc[w] = "check_existing"
    /\ is_exist' = [is_exist EXCEPT ![w] = check_existing(achievements, Row(w))]
    /\ pc' = [pc EXCEPT ![w] = IF is_exist'[w] THEN "commit" ELSE "create"]
    /\ UNCHANGED <<redis, achievements, pending, notifications, queue, dispatched,
                   item, scores, achievement, err, applied, notified, redo,
                   completed, delta_sum, any_failed>>
    /\ UNCHANGED <<cache_vars, api_vars>>

\* the row is being inserted by another open transaction: the INSERT waits
RowLocked(w) == \E v \in Workers \ {w} : Row(w) \in pending[v]

\* AchievementRepository.create: add + flush (the INSERT). A rejected INSERT
\* raises; session_decorator rolls back and raises again, process_event has
\* no handler
Create(w) ==
    /\ pc[w] = "create"
    /\ ~RowLocked(w)
    /\ IF UniqueViolation(achievements, Row(w))
       THEN /\ pc' = [pc EXCEPT ![w] = "failed"]
            /\ err' = [err EXCEPT ![w] = "IntegrityError"]
            /\ pending' = [pending EXCEPT ![w] = {}]
       ELSE /\ pc' = [pc EXCEPT ![w] = "commit"]
            /\ err' = err
            /\ pending' = [pending EXCEPT ![w] = {Row(w)}]
    /\ UNCHANGED <<redis, achievements, notifications, queue, dispatched, item,
                   scores, achievement, is_exist, applied, notified, redo,
                   completed, delta_sum, any_failed>>
    /\ UNCHANGED <<cache_vars, api_vars>>

\* process_event: "if not is_exist_achievements" before the notification
NotifyAlways(exists) == TRUE

NotifyNeeded(exists) == ~exists

\* a commit that makes no row durable
CommitNothing(table, rows) == table

\* await session.commit(): the rows of the session become committed rows
CommitRows(table, rows) ==
    [p \in Pairs |-> table[p] + (IF p \in rows THEN 1 ELSE 0)]

\* session_decorator: commit and return the result, or roll back and raise
Commit(w) ==
    /\ pc[w] = "commit"
    /\ \/ /\ achievements' = CommitRows(achievements, pending[w])
          /\ pc' = [pc EXCEPT ![w] =
                        IF NotifyNeeded(is_exist[w]) THEN "notify" ELSE "done"]
          /\ err' = err
       \/ /\ pc' = [pc EXCEPT ![w] = "failed"]
          /\ err' = [err EXCEPT ![w] = "DBError"]
          /\ achievements' = achievements
    /\ pending' = [pending EXCEPT ![w] = {}]
    /\ UNCHANGED <<redis, notifications, queue, dispatched, item, scores,
                   achievement, is_exist, applied, notified, redo, completed,
                   delta_sum, any_failed>>
    /\ UNCHANGED <<cache_vars, api_vars>>

\* send_achievement_notification(achievement, user_id), called in line
SendNotification(w) ==
    /\ pc[w] = "notify"
    /\ notifications' = [notifications EXCEPT ![Row(w)] = @ + 1]
    /\ notified' = [notified EXCEPT ![w] = TRUE]
    /\ pc' = [pc EXCEPT ![w] = "done"]
    /\ UNCHANGED <<redis, achievements, pending, queue, dispatched, item, scores,
                   achievement, is_exist, err, applied, redo, completed,
                   delta_sum, any_failed>>
    /\ UNCHANGED <<cache_vars, api_vars>>

\* the task has returned or raised; the worker is free for the next item
Ack(w) ==
    /\ pc[w] \in {"done", "failed"}
    /\ completed' = IF pc[w] = "done" THEN completed \cup {item[w]} ELSE completed
    /\ any_failed' = (any_failed \/ pc[w] = "failed")
    /\ pc' = [pc EXCEPT ![w] = "idle"]
    /\ UNCHANGED <<redis, achievements, pending, notifications, queue, dispatched,
                   item, scores, achievement, is_exist, err, applied, notified,
                   redo, delta_sum>>
    /\ UNCHANGED <<cache_vars, api_vars>>

Next ==
    \/ \E it \in Items : Dispatch(it)
    \/ \E w \in Workers :
          \/ Receive(w)
          \/ UpdateScores(w)
          \/ CheckExisting(w)
          \/ Create(w)
          \/ Commit(w)
          \/ SendNotification(w)
          \/ Ack(w)

Spec == Init /\ [][Next]_vars

\* --------------------------------------------------------- cache_handler
\* cache_handler is called: the key is built, then get_cache awaited
CacheHandler(c, args) ==
    /\ handler_pc[c] = "idle"
    /\ calls < MaxCalls
    /\ calls' = calls + 1
    /\ call' = [call EXCEPT ![c] = args]
    /\ cache_key' = [cache_key EXCEPT ![c] =
                        generate_handler_key(args.prefix, args.func.name,
                                             args.additional_key, args.user_id)]
    /\ handler_pc' = [handler_pc EXCEPT ![c] = "get_cache"]
    /\ result' = [result EXCEPT ![c] = NoResult]
    /\ raised' = [raised EXCEPT ![c] = None]
    /\ invoked' = [invoked EXCEPT ![c] = 0]
    /\ hit_read' = [hit_read EXCEPT ![c] = FALSE]
    /\ get_failed' = [get_failed EXCEPT ![c] = FALSE]
    /\ wrote' = [wrote EXCEPT ![c] = FALSE]
    /\ UNCHANGED <<redis, writer, pipeline_vars, inv_vars,
                   api_vars>>

\* get_cache returns and cache_handler tests "if cache_data": on a hit the
\* payload is validated into dto_model and returned
GetCache(c) ==
    /\ handler_pc[c] = "get_cache"
    /\ \/ LET cache_data == get_cache(redis, cache_key[c])
              v == Validate(call[c].dto_model, cache_data.d)
          IN /\ redis' = AfterGet(redis, cache_key[c])
             /\ hit_read' = [hit_read EXCEPT ![c] =
                                /\ Present(redis, cache_key[c])
                                /\ cache_key[c] \in DOMAIN writer
                                /\ writer[cache_key[c]] = call[c]]
             /\ get_failed' = get_failed
             /\ IF TruthyDict(cache_data)
                THEN IF v.ok
                     THEN /\ result' = [result EXCEPT ![c] = v.inst]
                          /\ handler_pc' = [handler_pc EXCEPT ![c] = "returned"]
                          /\ raised' = raised
                     ELSE /\ handler_pc' = [handler_pc EXCEPT ![c] = "raised"]
                          /\ raised' = [raised EXCEPT ![c] = "ValidationError"]
                          /\ result' = result
                ELSE /\ handler_pc' = [handler_pc EXCEPT ![c] = "func"]
                     /\ UNCHANGED <<result, raised>>
       \/ /\ get_failed' = [get_failed EXCEPT ![c] = TRUE]
          /\ IF GetCacheExcept = "log"
             THEN /\ handler_pc' = [handler_pc EXCEPT ![c] = "func"]
                  /\ raised' = raised
             ELSE /\ handler_pc' = [handler_pc EXCEPT ![c] = "raised"]
                  /\ raised' = [raised EXCEPT ![c] = "RedisError"]
          /\ UNCHANGED <<redis, result, hit_read>>
    /\ UNCHANGED <<call, cache_key, calls, invoked, wrote, writer,
                   pipeline_vars, inv_vars,
                   api_vars>>

\* result = await func(*args, **kwargs)
InvokeFunc(c) ==
    /\ handler_pc[c] = "func"
    /\ result' = [result EXCEPT ![c] = OperationResult(call[c].func, call[c].args)]
    /\ invoked' = [invoked EXCEPT ![c] = @ + 1]
    /\ handler_pc' = [handler_pc EXCEPT ![c] = "set_cache"]
    /\ UNCHANGED <<redis, call, cache_key, raised, calls, hit_read, get_failed,
                   wrote, writer, pipeline_vars, inv_vars,
                   api_vars>>

\* set_cache(cache_key, result, expire): the dumped JSON is SET, or the
\* store's error is logged; cache_handler then returns result
SetCache(c) ==
    /\ handler_pc[c] = "set_cache"
    /\ \/ /\ IsABCSchema(result[c])
          /\ redis' = RedisSet(redis, cache_key[c], model_dump_json(result[c]),
                                call[c].expire)
          /\ wrote' = [wrote EXCEPT ![c] = TRUE]
          /\ writer' = (cache_key[c] :> call[c]) @@ writer
          /\ handler_pc' = [handler_pc EXCEPT ![c] = "returned"]
          /\ raised' = raised
       \/ /\ UNCHANGED <<redis, wrote, writer>>
          /\ IF SetCacheExcept = "log"
             THEN /\ handler_pc' = [handler_pc EXCEPT ![c] = "returned"]
                  /\ raised' = raised
             ELSE /\ handler_pc' = [handler_pc EXCEPT ![c] = "raised"]
                  /\ raised' = [raised EXCEPT ![c] =
                                    IF IsABCSchema(result[c]) THEN "RedisError"
                                    ELSE "TypeError"]
    /\ UNCHANGED <<call, cache_key, result, calls, invoked, hit_read,
                   get_failed, pipeline_vars, inv_vars,
                   api_vars>>

\* the caller has its answer and may call again
Return(c) ==
    /\ handler_pc[c] \in {"returned", "raised"}
    /\ handler_pc' = [handler_pc EXCEPT ![c] = "idle"]
    /\ call' = [call EXCEPT ![c] = NoCall]
    /\ cache_key' = [cache_key EXCEPT ![c] = << >>]
    /\ result' = [result EXCEPT ![c] = NoResult]
    /\ raised' = [raised EXCEPT ![c] = None]
    /\ invoked' = [invoked EXCEPT ![c] = 0]
    /\ hit_read' = [hit_read EXCEPT ![c] = FALSE]
    /\ get_failed' = [get_failed EXCEPT ![c] = FALSE]
    /\ wrote' = [wrote EXCEPT ![c] = FALSE]
    /\ UNCHANGED <<redis, calls, writer, pipeline_vars, inv_vars,
                   api_vars>>

\* a second passes in the store
Tick ==
    /\ \E k \in DOMAIN redis : redis[k].ttl # NoExpiry
    /\ redis' = ExpireStep(redis)
    /\ writer' = [k \in DOMAIN writer \cap DOMAIN redis' |-> writer[k]]
    /\ UNCHANGED <<handler_pc, call, cache_key, result, raised, calls, invoked,
                   hit_read, get_failed, wrote, pipeline_vars, inv_vars,
                   api_vars>>

CacheNext ==
    \/ \E c \in Callers : \E args \in SharedCalls : CacheHandler(c, args)
    \/ \E c \in Callers :
          \/ GetCache(c)
          \/ InvokeFunc(c)
          \/ SetCache(c)
          \/ Return(c)
    \/ Tick

CacheSpec == Init /\ [][CacheNext]_vars

\* one caller making its calls one after the other, with any arguments
SerialNext ==
    \/ \E args \in Calls : CacheHandler("c1", args)
    \/ GetCache("c1")
    \/ InvokeFunc("c1")
    \/ SetCache("c1")
    \/ Return("c1")
    \/ Tick

SerialCacheSpec == Init /\ [][SerialNext]_vars

\* calls of two operations that share __name__ and prefix, and so the key,
\* but not the schema
CollidingCalls ==
    {a \in [func : {func_for_cache_test, func_payload}, dto_model : Schemas,
            args : ArgTuples, expire : Expires, prefix : {<<"a", "p", "i">>},
            user_id : UserIdArgs, additional_key : {PyNone}] :
        a.dto_model = a.func.returns}

\* one caller whose calls are of either operation
CollisionNext ==
    \/ \E args \in CollidingCalls : CacheHandler("c1", args)
    \/ GetCache("c1")
    \/ InvokeFunc("c1")
    \/ SetCache("c1")
    \/ Return("c1")
    \/ Tick

CollisionSpec == Init /\ [][CollisionNext]_vars

\* ----------------------------------------------------------- invalidation
MaxInvalidations == 1
MaxScore == 5

InvalidationPrefixes == {<<"a">>, <<"s">>}
InvalidationUsers == {PyInt(1), PyInt(2)}
\* a qualifier that starts with ":" and holds the text ":a://"
InvalidationKeys == {PyNone, PyStr(<<":", "a", ":", "/", "/">>)}

\* the cache_handler calls that fill the cache: for no user and for user 1,
\* the qualifier with the prefix it does not name
InvalidationCalls ==
    {a \in [func : {func_for_cache_test}, dto_model : {TestModel},
            args : {<<"a", 0>>}, expire : {NoExpiry},
            prefix : InvalidationPrefixes, user_id : {PyNone, PyInt(1)},
            additional_key : InvalidationKeys] :
        a.additional_key # PyNone => a.prefix = <<"s">>}

Restrict(f, S) == [k \in DOMAIN f \cap S |-> f[k]]

\* how an invalidation ends when a store command of it raised
InvalidateFailure == IF InvalidateExcept = "log" THEN "logged" ELSE "raised"

\* the invalidation ends with the store as it was
InvalidateKeeps(op, prefix, user_id, outcome) ==
    /\ redis' = redis
    /\ inv' = [op |-> op, prefix |-> prefix, user_id |-> user_id,
               outcome |-> outcome]

\* redis_manager.update_scores(user_id, delta), awaited by a process_event
\* task while the cache is in use
update_scores(user_id, delta) ==
    /\ get_scores(redis, user_id) + delta <= MaxScore
    /\ redis' = Incrby(redis, create_key(user_id, SCORES), delta)
    /\ UNCHANGED <<pipeline_vars, cache_vars, api_vars>>

\* invalidate_all: FLUSHDB, or its error logged
InvalidateAll ==
    /\ inv_calls < MaxInvalidations
    /\ inv_calls' = inv_calls + 1
    /\ \/ /\ redis' = Flushdb(redis)
          /\ inv' = [op |-> "all", prefix |-> << >>, user_id |-> PyNone,
                     outcome |-> "deleted"]
       \/ InvalidateKeeps("all", << >>, PyNone, InvalidateFailure)
    /\ writer' = Restrict(writer, DOMAIN redis')
    /\ UNCHANGED <<handler_pc, call, cache_key, result, raised, calls, invoked,
                   hit_read, get_failed, wrote, pipeline_vars, api_vars>>

\* invalidate_by_prefix(prefix): KEYS, then DEL of the keys found (taken as
\* one step), or the error of either logged
InvalidateByPrefix(prefix) ==
    /\ inv_calls < MaxInvalidations
    /\ inv_calls' = inv_calls + 1
    /\ LET keys == RedisKeys(redis, PrefixScanPattern(prefix))
           del == RedisDelete(redis, {KeyArg(k) : k \in keys})
       IN \/ IF keys # {}
             THEN IF del.ok
                  THEN \/ /\ redis' = del.store
                          /\ inv' = [op |-> "by_prefix", prefix |-> prefix,
                                     user_id |-> PyNone, outcome |-> "deleted"]
                       \/ InvalidateKeeps("by_prefix", prefix, PyNone,
                                          InvalidateFailure)
                  ELSE InvalidateKeeps("by_prefix", prefix, PyNone,
                                       InvalidateFailure)
             ELSE InvalidateKeeps("by_prefix", prefix, PyNone, "empty")
          \/ InvalidateKeeps("by_prefix", prefix, PyNone, InvalidateFailure)
    /\ writer' = Restrict(writer, DOMAIN redis')
    /\ UNCHANGED <<handler_pc, call, cache_key, result, raised, calls, invoked,
                   hit_read, get_failed, wrote, pipeline_vars, api_vars>>

\* invalidate_by_user(user_id): KEYS, then DEL with the list of the keys
\* found as its one argument (taken as one step), or the error of either
\* logged
InvalidateByUser(user_id) ==
    /\ inv_calls < MaxInvalidations
    /\ inv_calls' = inv_calls + 1
    /\ LET keys == RedisKeys(redis, UserScanPattern(user_id))
           del == RedisDelete(redis, {ListArg(keys)})
       IN \/ IF keys # {}
             THEN IF del.ok
                  THEN \/ /\ redis' = del.store
                          /\ inv' = [op |-> "by_user", prefix |-> << >>,
                                     user_id |-> user_id, outcome |-> "deleted"]
                       \/ InvalidateKeeps("by_user", << >>, user_id,
                                          InvalidateFailure)
                  ELSE InvalidateKeeps("by_user", << >>, user_id,
                                       InvalidateFailure)
             ELSE InvalidateKeeps("by_user", << >>, user_id, "empty")
          \/ InvalidateKeeps("by_user", << >>, user_id, InvalidateFailure)
    /\ writer' = Restrict(writer, DOMAIN redis')
    /\ UNCHANGED <<handler_pc, call, cache_key, result, raised, calls, invoked,
                   hit_read, get_failed, wrote, pipeline_vars, api_vars>>

\* one caller fills the cache while scores are raised and the cache is
\* invalidated
InvalidationNext ==
    \/ \E args \in InvalidationCalls : CacheHandler("c1", args)
    \/ GetCache("c1")
    \/ InvokeFunc("c1")
    \/ SetCache("c1")
    \/ Return("c1")
    \/ \E u \in UserIds : update_scores(u, 5)
    \/ InvalidateAll
    \/ \E prefix \in InvalidationPrefixes : InvalidateByPrefix(prefix)
    \/ \E u \in InvalidationUsers : InvalidateByUser(u)

InvalidationSpec == Init /\ [][InvalidationNext]_vars

\* ------------------------------------------------- levels of a work item
\* work items of one user with the levels that make 20 + level negative,
\* zero and positive
LevelItems == [event_type : EventTypes, user_id : {1}, level : {-25, -20, 0, 10}]

\* one worker processes work items of any level
LevelNext ==
    \/ \E it \in LevelItems : Dispatch(it)
    \/ Receive("w1")
    \/ UpdateScores("w1")
    \/ CheckExisting("w1")
    \/ Create("w1")
    \/ Commit("w1")
    \/ SendNotification("w1")
    \/ Ack("w1")

LevelSpec == Init /\ [][LevelNext]_vars

\* ------------------------------------------------------------ key builder
\* user_id: Optional[int | str] and additional_key: Optional[str] as callers
\* may pass them: None, 0, 1, "1"; None, "", "k", "user:1:"
KeyUserIds == {PyNone, PyInt(0), PyInt(1), PyStr(<<"1">>)}
KeyQualifiers ==
    {PyNone, PyStr(<< >>), PyStr(<<"k">>),
     PyStr(<<"u", "s", "e", "r", ":", "1", ":">>)}

\* the cache_handler calls whose keys are compared
KeyCalls ==
    [func : {func_for_cache_test}, dto_model : {TestModel},
     args : {<<"a", 0>>}, expire : {NoExpiry}, prefix : Prefixes,
     user_id : KeyUserIds, additional_key : KeyQualifiers]

\* one caller makes cache_handler calls that differ in what the key is
\* built from
KeyNext ==
    \/ \E args \in KeyCalls : CacheHandler("c1", args)
    \/ GetCache("c1")
    \/ InvokeFunc("c1")
    \/ SetCache("c1")
    \/ Return("c1")

KeySpec == Init /\ [][KeyNext]_vars

\* ------------------------------------------------------------------ claims
KnownTypes == {LOGIN, FIND_SECRET, COMPLETE_LEVEL}

ScoreKey(u) == create_key(u, SCORES)

\* worker w takes a step of the item it holds
Steps(w) == pc[w] # "idle" /\ pc'[w] # pc[w]

\* C1: however the work items of concurrent workers interleave, duplicates of
\* one item included, the committed achievements hold at most one row for
\* each (user_id, achievement name) pair.
C1_UniqueAchievement == \A p \in Pairs : achievements[p] <= 1

\* two workers passed the existence check for one pair; one row is committed
\* and the other INSERT was rejected
C1_Witness ==
    \E w \in Workers : \E v \in Workers \ {w} :
        /\ achievement[w] # None /\ Row(w) = Row(v)
        /\ pc[w] \in {"notify", "done"} /\ ~is_exist[w]
        /\ ~is_exist[v] /\ err[v] = "IntegrityError"
        /\ achievements[Row(w)] = 1

\* C2: a worker whose INSERT the uniqueness constraint rejects takes that as
\* "already awarded": its process_event ends without an error, and it emits
\* no notification.
C2_RejectedInsertCompletes ==
    \A w \in Workers :
        err[w] = "IntegrityError" => (pc[w] # "failed" /\ ~notified[w])

\* C3 as stated: processing a work item that has been processed before leaves
\* the score ledger and the achievement records as they are.
C3_Idempotent ==
    [][\A w \in Workers :
          (redo[w] /\ Steps(w)) => (redis' = redis /\ achievements' = achievements)]_vars

\* C3 amended: processing a work item that has completed before changes no
\* achievement record, meets no rejected INSERT and emits no notification; its
\* score step adds the item's delta to the ledger once more, and no other
\* step of it changes the store.
C3_RedeliveryAddsScoreOnly ==
    [][\A w \in Workers :
          (redo[w] /\ Steps(w)) =>
              /\ achievements' = achievements
              /\ notifications' = notifications
              /\ err'[w] # "IntegrityError"
              /\ IF pc[w] = "update_scores" /\ pc'[w] # "failed"
                 THEN /\ get_scores(redis', item[w].user_id)
                           = get_scores(redis, item[w].user_id) + scores[w]
                      /\ \A k \in DOMAIN redis \ {ScoreKey(item[w].user_id)} :
                            k \in DOMAIN redis' /\ redis'[k] = redis[k]
                 ELSE redis' = redis]_vars

\* a redelivered login has run to its end: the score was raised again, to 10
C3_Witness ==
    \E w \in Workers :
        /\ redo[w] /\ pc[w] = "done" /\ item[w].event_type = LOGIN
        /\ applied[w] = 5
        /\ get_scores(redis, item[w].user_id) = 10
        /\ achievements[Row(w)] = 1

AllCompleted == \A w \in Workers : pc[w] \in {"idle", "done"}

\* C4: once every received work item has completed without error, each
\* user's score is the sum of the deltas of that user's items (the ledger
\* starts empty), whatever the interleaving; get_scores returns that value,
\* and 0 for a user without a counter.
C4_NoLostIncrement ==
    /\ (AllCompleted /\ ~any_failed) =>
           \A u \in UserIds : get_scores(redis, u) = delta_sum[u]
    /\ \A u \in UserIds : ~Present(redis, ScoreKey(u)) => get_scores(redis, u) = 0

\* both workers have completed an item of the same user, each after raising
\* the score, and the other user has no counter
C4_Witness ==
    /\ ~any_failed
    /\ \A w \in Workers : pc[w] = "done" /\ applied[w] > 0 /\ item[w].user_id = 1
    /\ get_scores(redis, 1) = applied["w1"] + applied["w2"]
    /\ ~Present(redis, ScoreKey(2))

\* the score delta and the achievement the claim gives for an event type
ClaimedDelta(it) ==
    CASE it.event_type = LOGIN -> 5
      [] it.event_type = FIND_SECRET -> 50
      [] it.event_type = COMPLETE_LEVEL -> 20 + it.level

ClaimedAchievement(it) ==
    CASE it.event_type = LOGIN -> BEGINNER
      [] it.event_type = FIND_SECRET -> RESEARCHER
      [] it.event_type = COMPLETE_LEVEL -> MASTER

\* C5 as stated: a completed item of a known type has changed its user's
\* score by exactly 5, 50 or 20+level.
C5_ExactDelta ==
    \A w \in Workers :
        (pc[w] = "done" /\ item[w].event_type \in KnownTypes) =>
            applied[w] = ClaimedDelta(item[w])

\* C5 amended: login gives +5 and Beginner, find_secret +50 and Researcher,
\* complete_level +(20+level) and Master when 20+level > 0 and no score
\* change when 20+level <= 0. A step of a work item changes no score but its
\* own user's, and creates an achievement row only where there was none.
C5_DeltaAndAchievement ==
    /\ [](\A w \in Workers :
            (pc[w] = "done" /\ item[w].event_type \in KnownTypes) =>
                /\ applied[w] = (IF ClaimedDelta(item[w]) > 0
                                 THEN ClaimedDelta(item[w]) ELSE 0)
                /\ achievement[w] = ClaimedAchievement(item[w])
                /\ achievements[Row(w)] = 1)
    /\ [][\A w \in Workers :
            Steps(w) =>
                /\ \A k \in DOMAIN redis \ {ScoreKey(item[w].user_id)} :
                      k \in DOMAIN redis' /\ redis'[k] = redis[k]
                /\ DOMAIN redis' \subseteq DOMAIN redis \cup {ScoreKey(item[w].user_id)}
                /\ achievements' # achievements =>
                      /\ achievements[Row(w)] = 0
                      /\ achievements' = [achievements EXCEPT ![Row(w)] = 1]]_vars

\* complete_level with level 10 has completed: +30 and Master, while the
\* other user has a score of its own
C5_Witness ==
    \E w \in Workers :
        /\ pc[w] = "done" /\ item[w].event_type = COMPLETE_LEVEL
        /\ item[w].level = 10 /\ applied[w] = 30
        /\ achievements[<<item[w].user_id, MASTER>>] = 1
        /\ \E u \in UserIds \ {item[w].user_id} : get_scores(redis, u) > 0

\* C6: a work item whose event type is none of login, find_secret and
\* complete_level changes no score, creates no achievement row, emits no
\* notification and raises nothing.
C6_UnknownTypeNoOp ==
    [][\A w \in Workers :
          (pc'[w] # pc[w] /\ item'[w] # NoItem
              /\ item'[w].event_type \notin KnownTypes) =>
              /\ redis' = redis
              /\ achievements' = achievements
              /\ pending' = pending
              /\ notifications' = notifications
              /\ pc'[w] \in {"done", "idle"}
              /\ err'[w] = None]_vars

\* a logout item has completed
C6_Witness ==
    \E w \in Workers :
        pc[w] = "done" /\ item[w].event_type = LOGOUT /\ err[w] = None

\* C7: a notification for a pair is emitted only by a work item that found
\* the record absent and whose row is committed; so no pair ever gets more
\* than one notification.
C7_NotifyAtMostOnce ==
    /\ [](\A p \in Pairs : notifications[p] <= 1)
    /\ [][\A p \in Pairs :
            notifications'[p] # notifications[p] =>
                \E w \in Workers :
                    /\ pc[w] = "notify" /\ Row(w) = p
                    /\ ~is_exist[w] /\ achievements[p] >= 1
                    /\ notifications'[p] = notifications[p] + 1]_vars

\* one item was notified, a later one found the record present and ended
\* without a notification
C7_Witness ==
    \E w \in Workers :
        /\ pc[w] = "done" /\ achievement[w] # None /\ is_exist[w] /\ ~notified[w]
        /\ notifications[Row(w)] = 1

\* C8: a cache_handler call whose GET returns the payload that an earlier
\* call with the same arguments stored (not expired, not invalidated) does
\* not invoke the operation.
C8_HitSkipsOperation ==
    \A c \in Callers :
        hit_read[c] => (invoked[c] = 0 /\ handler_pc[c] \notin {"func", "set_cache"})

C10_GetFailureIsMiss ==
    \A c \in Callers :
        get_failed[c] =>
            /\ raised[c] = None
            /\ handler_pc[c] \in {"func", "set_cache", "returned"}
            /\ handler_pc[c] \in {"set_cache", "returned"} =>
                  /\ invoked[c] = 1
                  /\ result[c] = OperationResult(call[c].func, call[c].args)

\* the store failed a call's GET and SET while it held an entry for the
\* key; the call returned the operation's result
C10_Witness ==
    \E c \in Callers :
        /\ get_failed[c] /\ handler_pc[c] = "returned" /\ invoked[c] = 1
        /\ ~wrote[c] /\ Present(redis, cache_key[c])
        /\ result[c] = OperationResult(call[c].func, call[c].args)

\* json.loads accepts the text and dto_model validates the parsed dict
Deserializes(schema, text) ==
    JsonLoads(text).ok /\ Validate(schema, JsonLoads(text).d).ok

\* C11: a call whose GET returns a payload that does not deserialize into
\* dto_model (text json.loads rejects, or a dict dto_model does not validate)
\* goes on as after a miss: the operation is invoked and nothing is raised.
C11_UndeserializableIsMiss ==
    [][\A c \in Callers :
          (/\ handler_pc[c] = "get_cache" /\ handler_pc'[c] # "get_cache"
           /\ ~get_failed'[c]
           /\ Present(redis, cache_key[c])
           /\ ~Deserializes(call[c].dto_model, redis[cache_key[c]].value)) =>
              (handler_pc'[c] = "func" /\ raised'[c] = None)]_vars

C13_NonSchemaNotStored ==
    [][\A c \in Callers :
          (/\ handler_pc[c] = "set_cache" /\ handler_pc'[c] # "set_cache"
           /\ result[c].schema \notin Schemas) =>
              /\ redis' = redis
              /\ handler_pc'[c] = "returned"
              /\ raised'[c] = None
              /\ result'[c] = OperationResult(call[c].func, call[c].args)]_vars

\* a call of the operation that returns a plain dict has returned it, with
\* entries of other calls in the store and none under its own key
C13_Witness ==
    \E c \in Callers :
        /\ handler_pc[c] = "returned" /\ invoked[c] = 1
        /\ result[c].schema = PlainDict
        /\ result[c] = OperationResult(call[c].func, call[c].args)
        /\ DOMAIN redis # {}
        /\ ~Present(redis, cache_key[c])

\* caller c has a step to take whatever the other callers are doing
CanStep(c) == ENABLED (GetCache(c) \/ InvokeFunc(c) \/ SetCache(c) \/ Return(c))

\* C14: with concurrent calls for one key on a cache that starts empty, a
\* call that finds no entry invokes the operation, and a call returns
\* without invoking it only after reading an entry that an invoking call
\* stored; every call ends with a value, the operation's result (for a hit,
\* the result of the storing call: its own when the arguments are the
\* same), and none raises; a call in progress always has a step of its own
\* to take.
C14_ConcurrentMissesCompute ==
    /\ [](\A c \in Callers :
            /\ raised[c] = None /\ handler_pc[c] # "raised"
            /\ handler_pc[c] = "returned" =>
                  /\ result[c] # NoResult
                  /\ invoked[c] = 1 =>
                        result[c] = OperationResult(call[c].func, call[c].args)
            /\ handler_pc[c] # "idle" => CanStep(c))
    /\ [][\A c \in Callers :
            (handler_pc[c] = "get_cache" /\ handler_pc'[c] # "get_cache") =>
                /\ ~Present(redis, cache_key[c]) => handler_pc'[c] = "func"
                /\ handler_pc'[c] = "returned" =>
                      /\ cache_key[c] \in DOMAIN writer
                      /\ result'[c] = OperationResult(writer[cache_key[c]].func,
                                                      writer[cache_key[c]].args)
                      /\ writer[cache_key[c]].args = call[c].args =>
                            result'[c] = OperationResult(call[c].func, call[c].args)]_vars

\* two concurrent calls with the same arguments both missed, both invoked
\* the operation and both returned its result
C14_Witness ==
    /\ \A c \in Callers : handler_pc[c] = "returned" /\ invoked[c] = 1
    /\ call["c1"] = call["c2"]
    /\ result["c1"] = result["c2"]
    /\ result["c1"] = OperationResult(call["c1"].func, call["c1"].args)
    /\ wrote["c1"] /\ wrote["c2"]

\* an invalidation call is made in this step
Invalidates(op) == inv_calls' # inv_calls /\ inv'.op = op

\* the store answered every command of the invalidation made in this step
StoreAnswered == inv'.outcome \in {"deleted", "empty"}

\* C15: after invalidate_by_prefix(p) whose store commands succeeded, no
\* entry whose key was built with prefix p remains, and every entry built
\* with another prefix is still there with its value, whatever the qualifier
\* and the user_id of the entries.
C15_PrefixInvalidation ==
    [][(Invalidates("by_prefix") /\ StoreAnswered) =>
          \A k \in DOMAIN writer :
              IF writer[k].prefix = inv'.prefix
              THEN ~Present(redis', k)
              ELSE Present(redis', k) /\ redis'[k] = redis[k]]_vars

\* C16: after invalidate_by_user(u) whose store commands succeeded, every
\* entry whose key was built with user_id u is deleted, and the entries of
\* other users and of no user are still there.
C16_UserInvalidation ==
    [][(Invalidates("by_user") /\ StoreAnswered) =>
          \A k \in DOMAIN writer :
              IF writer[k].user_id = inv'.user_id
              THEN ~Present(redis', k)
              ELSE Present(redis', k) /\ redis'[k] = redis[k]]_vars

\* the entry of the user's score counter, NoneText without one
ScoreCounter(store, u) == RedisGet(store, ScoreKey(u))

\* C17: invalidate_all removes every entry cache_handler stored and leaves
\* every user's score counter as it is: get_scores returns after it what it
\* returned before.
C17_FlushKeepsScores ==
    [][(Invalidates("all") /\ inv'.outcome = "deleted") =>
          /\ \A k \in DOMAIN writer : ~Present(redis', k)
          /\ \A u \in UserIds :
                /\ ScoreCounter(redis', u) = ScoreCounter(redis, u)
                /\ get_scores(redis', u) = get_scores(redis, u)]_vars

C19_InvalidationNeverRaises ==
    /\ [](inv.outcome # "raised")
    /\ [][inv_calls' # inv_calls =>
            /\ inv'.outcome \in {"deleted", "empty", "logged"}
            /\ inv'.outcome \in {"empty", "logged"} => redis' = redis
            /\ (inv'.op = "by_prefix"
                  /\ RedisKeys(redis, PrefixScanPattern(inv'.prefix)) = {}) =>
                  (inv'.outcome \in {"empty", "logged"} /\ redis' = redis)
            /\ (inv'.op = "by_user"
                  /\ RedisKeys(redis, UserScanPattern(inv'.user_id)) = {}) =>
                  (inv'.outcome \in {"empty", "logged"} /\ redis' = redis)]_vars

\* an invalidate_by_prefix call ended after logging a failure, with the
\* keys of its prefix still in the store
C19_Witness ==
    /\ inv.op = "by_prefix" /\ inv.outcome = "logged"
    /\ RedisKeys(redis, PrefixScanPattern(inv.prefix)) # {}

\* C20: when the store fails the INCRBY, update_scores raises: the work
\* item's process_event fails with that error, it runs none of its later
\* steps, and it is not counted among the completed items.
C20_IncrementFailureFails ==
    /\ [](\A w \in Workers :
            err[w] = "RedisError" =>
                /\ pc[w] \in {"failed", "idle"}
                /\ applied[w] = 0 /\ ~notified[w] /\ pending[w] = {})
    /\ [][\A w \in Workers :
            /\ (pc[w] = "update_scores" /\ pc'[w] # pc[w] /\ redis' = redis) =>
                  (pc'[w] = "failed" /\ err'[w] = "RedisError")
            /\ (pc[w] = "failed" /\ pc'[w] # pc[w]) =>
                  /\ pc'[w] = "idle" /\ any_failed'
                  /\ completed' = completed
                  /\ redis' = redis /\ achievements' = achievements
                  /\ notifications' = notifications]_vars

\* the INCRBY of a first login failed: the task has ended with the error,
\* the user has no score and no achievement, and no item has completed
C20_Witness ==
    \E w \in Workers :
        /\ pc[w] = "idle" /\ err[w] = "RedisError" /\ any_failed
        /\ item[w].event_type = LOGIN
        /\ get_scores(redis, item[w].user_id) = 0
        /\ achievements[<<item[w].user_id, BEGINNER>>] = 0
        /\ completed = {}

\* ------------------------------------------------- POST /v1/events/event
\* PostEventV1Request: event_type is an EventTypeEnum, details.level > 0
PostData ==
    {it \in Items : it.level > 0
                    /\ it.event_type \in {LOGIN, COMPLETE_LEVEL, FIND_SECRET}}

\* the session's rollback: the request ends with the error, its row is gone
RolledBack(error) == [NoRequest EXCEPT !.outcome = error]

\* post_event_v1_handler up to EventRepository.create: add + flush (the
\* INSERT, created_at = now()) + refresh in the request's transaction; an
\* error of the database ends the request in session_dependency's rollback
PostEvent(data) ==
    /\ req.pc = "idle"
    /\ dispatched < MaxDispatch
    /\ \/ req' = [pc |-> "delay", data |-> data,
                  row |-> [user_id |-> data.user_id,
                           event_type |-> data.event_type,
                           created_at |-> Len(events) + 1],
                  outcome |-> None]
       \/ req' = RolledBack("DBError")
    /\ UNCHANGED <<redis, events, stats, tx, pipeline_vars, cache_vars>>

\* process_event.delay(event_type, user_id, level): the work item is put on
\* the broker queue and the handler returns; a broker error rolls back
Delay ==
    /\ req.pc = "delay"
    /\ \/ /\ queue' = Append(queue, req.data)
          /\ dispatched' = dispatched + 1
          /\ req' = [req EXCEPT !.pc = "commit"]
       \/ /\ req' = RolledBack("BrokerError")
          /\ UNCHANGED <<queue, dispatched>>
    /\ UNCHANGED <<redis, events, stats, tx, achievements, pending, notifications,
                   pc, item, scores, achievement, is_exist, err, applied,
                   notified, redo, completed, delta_sum, any_failed, cache_vars>>

\* session_dependency after the yield: "await session.commit()", or its
\* error, the rollback and "raise"
SessionCommit ==
    /\ req.pc = "commit"
    /\ \/ /\ events' = Append(events, req.row)
          /\ req' = [NoRequest EXCEPT !.outcome = "ok"]
       \/ /\ events' = events
          /\ req' = RolledBack("DBError")
    /\ UNCHANGED <<redis, stats, tx, pipeline_vars, cache_vars>>

\* events are posted while one worker processes the work items
IngestNext ==
    \/ \E data \in PostData : PostEvent(data)
    \/ Delay
    \/ SessionCommit
    \/ Receive("w1")
    \/ UpdateScores("w1")
    \/ CheckExisting("w1")
    \/ Create("w1")
    \/ Commit("w1")
    \/ SendNotification("w1")
    \/ Ack("w1")

IngestSpec == Init /\ [][IngestNext]_vars

\* ------------------------------------------------- GET /v1/users/stats
\* the fields class RedisSettings declares, with their defaults
RedisSettings ==
    [HOST |-> "app-redis", PORT |-> 6379, PASSWORD |-> "redis",
     CACHE_API_DB |-> 0, CELERY_BACKEND_DB |-> 1, REPOSITORY_DB |-> 2]

\* settings.REDIS.<name> raises AttributeError for a name that is no field
HasSetting(name) == name \in DOMAIN RedisSettings

STATS == <<"s", "t", "a", "t", "s">>

\* .limit(5) of get_last_events
LastEventsLimit == 5

RECURSIVE OrderByCreatedAsc(_)
\* rows ordered oldest first
OrderByCreatedAsc(rows) ==
    IF rows = {} THEN << >>
    ELSE LET r == CHOOSE x \in rows : \A y \in rows : x.created_at <= y.created_at
         IN <<r>> \o OrderByCreatedAsc(rows \ {r})

RECURSIVE OrderByCreatedDesc(_)
\* .order_by(created_at.desc())
OrderByCreatedDesc(rows) ==
    IF rows = {} THEN << >>
    ELSE LET r == CHOOSE x \in rows : \A y \in rows : x.created_at >= y.created_at
         IN <<r>> \o OrderByCreatedDesc(rows \ {r})

\* .limit(n)
Limit(rows, n) == SubSeq(rows, 1, IF Len(rows) < n THEN Len(rows) ELSE n)

\* EventRepository.get_last_events(user_id): the event_type of the rows of
\* the user, newest first, five at most
get_last_events(table, user_id) ==
    LET rows == {table[i] : i \in {j \in 1..Len(table) : table[j].user_id = user_id}}
        last == Limit(OrderByCreatedDesc(rows), LastEventsLimit)
    IN [i \in 1..Len(last) |-> last[i].event_type]

\* the names in the order the rows are read
AchievementOrder == <<BEGINNER, RESEARCHER, MASTER>>

\* AchievementRepository.get_user_achievements(user_id): the name of every
\* row of the user
get_user_achievements(table, user_id) ==
    LET names(i) == [k \in 1..table[<<user_id, AchievementOrder[i]>>] |->
                        AchievementOrder[i]]
    IN names(1) \o names(2) \o names(3)

RECURSIVE JsonList(_)
\* a list of strings as JSON text, after its "["
JsonList(names) ==
    IF names = << >> THEN <<"]">>
    ELSE <<"\"", Head(names), "\"">>
         \o (IF Len(names) > 1 THEN <<",">> ELSE << >>) \o JsonList(Tail(names))

\* GetUsersStatsV1DTO.model_dump_json()
StatsDumpJson(r) ==
    <<"{", "\"", "events", "\"", ":", "[">> \o JsonList(r.events)
    \o <<",", "\"", "score", "\"", ":">> \o IntToStr(r.score)
    \o <<",", "\"", "achievements", "\"", ":", "[">> \o JsonList(r.achievements)
    \o <<"}">>

\* the index of the first "]" from i on, or 0
ListEnd(text, i) ==
    LET ends == {j \in i..Len(text) : text[j] = "]"}
    IN IF ends = {} THEN 0 ELSE CHOOSE j \in ends : \A k \in ends : j <= k

\* the strings of the JSON list that ends before lexeme e
ListItems(text, i, e) ==
    SelectSeq(SubSeq(text, i, e - 1), LAMBDA x : x \notin {"\"", ","})

\* GetUsersStatsV1DTO(**json.loads(data)): [ok |-> the text is a dumped
\* StatsResult, r |-> the instance]
StatsLoadJson(text) ==
    LET e1 == ListEnd(text, 7)
        d1 == e1 + 6
        d2 == DigitRun(text, d1)
        e2 == ListEnd(text, d2 + 6)
        r == [events |-> ListItems(text, 7, e1),
              score |-> StrToInt(SubSeq(text, d1, d2 - 1)),
              achievements |-> ListItems(text, d2 + 6, e2)]
    IN IF e1 = 0 \/ d1 > Len(text) \/ d2 = d1 \/ e2 = 0
       THEN [ok |-> FALSE, r |-> NoResponse]
       ELSE [ok |-> StatsDumpJson(r) = text, r |-> r]

\* GET /v1/users/stats/{user_id}: the key is built, get_cache is awaited
StatsRequest(user_id) ==
    /\ stats.pc = "idle"
    /\ stats' = [NoStats EXCEPT !.pc = "get_cache", !.user_id = user_id,
                                !.key = create_key(user_id, STATS)]
    /\ UNCHANGED <<redis, events, req, tx, pipeline_vars, cache_vars>>

\* RedisManager.get_cache(key, GetUsersStatsV1DTO) and "if cache: return
\* cache": the GET, json.loads and the validation are inside one try, every
\* error is logged and None returned
StatsGetCache ==
    /\ stats.pc = "get_cache"
    /\ \/ LET data == RedisGet(redis, stats.key)
              some == data # NoneText /\ Len(data) > 0
              loaded == IF some THEN StatsLoadJson(data)
                        ELSE [ok |-> FALSE, r |-> NoResponse]
          IN stats' = IF loaded.ok
                      THEN [stats EXCEPT !.pc = "returned", !.response = loaded.r,
                                         !.from_cache = TRUE]
                      ELSE [stats EXCEPT !.pc = "get_last_events",
                                         !.get_failed = some]
       \/ stats' = [stats EXCEPT !.pc = "get_last_events", !.get_failed = TRUE]
    /\ UNCHANGED <<redis, events, req, tx, pipeline_vars, cache_vars>>

\* events = await EventRepository(session).get_last_events(user_id)
StatsLastEvents ==
    /\ stats.pc = "get_last_events"
    /\ stats' = [stats EXCEPT !.pc = "get_scores",
                              !.events = get_last_events(events, stats.user_id)]
    /\ UNCHANGED <<redis, events, req, tx, pipeline_vars, cache_vars>>

\* score = await redis.get_scores(user_id): no try around the GET
StatsGetScores ==
    /\ stats.pc = "get_scores"
    /\ \/ stats' = [stats EXCEPT !.pc = "get_user_achievements",
                                 !.score = get_scores(redis, stats.user_id)]
       \/ stats' = [stats EXCEPT !.pc = "raised", !.raised = "RedisError"]
    /\ UNCHANGED <<redis, events, req, tx, pipeline_vars, cache_vars>>

\* achievements = await get_user_achievements(user_id), then the response
\* is built
StatsAchievements ==
    /\ stats.pc = "get_user_achievements"
    /\ LET names == get_user_achievements(achievements, stats.user_id)
       IN stats' = [stats EXCEPT
                       !.pc = "set_cache", !.achievements = names,
                       !.response = [events |-> stats.events,
                                     score |-> stats.score,
                                     achievements |-> names]]
    /\ UNCHANGED <<redis, events, req, tx, pipeline_vars, cache_vars>>

\* await redis_manager.set_cache(key, response,
\* exp=settings.REDIS.CACHE_TTL_SEC), then "return response": the argument
\* is evaluated before the call; set_cache logs the store's error
StatsSetCache ==
    /\ stats.pc = "set_cache"
    /\ IF HasSetting("CACHE_TTL_SEC")
       THEN /\ stats' = [stats EXCEPT !.pc = "returned"]
            /\ \/ redis' = RedisSet(redis, stats.key,
                                    StatsDumpJson(stats.response),
                                    RedisSettings["CACHE_TTL_SEC"])
               \/ redis' = redis
       ELSE /\ stats' = [stats EXCEPT !.pc = "raised",
                                      !.raised = "AttributeError"]
            /\ redis' = redis
    /\ UNCHANGED <<events, req, tx, pipeline_vars, cache_vars>>

\* the response or the error has been sent
StatsReturn ==
    /\ stats.pc \in {"returned", "raised"}
    /\ stats' = NoStats
    /\ UNCHANGED <<redis, events, req, tx, pipeline_vars, cache_vars>>

\* the rows the tables of a stats read are drawn from
MaxRows == 6
RowKinds ==
    {[user_id |-> 1, event_type |-> LOGIN],
     [user_id |-> 1, event_type |-> FIND_SECRET],
     [user_id |-> 2, event_type |-> LOGIN]}

\* table events after the requests posted so far: one row each, created_at
\* in the order of the transactions
EventTables ==
    UNION {{[i \in 1..n |-> [user_id |-> f[i].user_id,
                             event_type |-> f[i].event_type,
                             created_at |-> i]] : f \in [1..n -> RowKinds]}
           : n \in 0..MaxRows}

\* the state in which the stats reads are made: events posted, user 1 with
\* or without a score and a first achievement
StatsInit ==
    /\ events \in EventTables
    /\ \E scored \in BOOLEAN :
          /\ redis = IF scored THEN Incrby(<< >>, create_key(1, SCORES), 5)
                     ELSE << >>
          /\ achievements = [p \in Pairs |->
                                IF scored /\ p = <<1, BEGINNER>> THEN 1 ELSE 0]
    /\ WorkersInit
    /\ CacheInit
    /\ req = NoRequest
    /\ stats = NoStats
    /\ tx = NoTx

\* stats reads, one at a time
StatsNext ==
    \/ \E u \in UserIds : StatsRequest(u)
    \/ StatsGetCache
    \/ StatsLastEvents
    \/ StatsGetScores
    \/ StatsAchievements
    \/ StatsSetCache
    \/ StatsReturn

StatsSpec == StatsInit /\ [][StatsNext]_vars

\* -------------------------------------------------- keys of the one store
\* cache_handler calls whose user segment and qualifier spell a ledger key
KeyspaceCalls ==
    [func : {func_for_cache_test}, dto_model : {TestModel},
     args : {<<"a", 0>>}, expire : {NoExpiry}, prefix : {<<"s">>},
     user_id : {PyNone, PyInt(1)}, additional_key : {PyNone, PyStr(SCORES)}]

\* the cache wrapper, the stats handler and the ledger use database
\* CACHE_API_DB side by side
KeyspaceNext ==
    \/ \E args \in KeyspaceCalls : CacheHandler("c1", args)
    \/ GetCache("c1")
    \/ InvokeFunc("c1")
    \/ SetCache("c1")
    \/ Return("c1")
    \/ \E u \in UserIds : update_scores(u, 5)
    \/ \E u \in UserIds : StatsRequest(u)
    \/ StatsGetCache
    \/ StatsLastEvents
    \/ StatsGetScores
    \/ StatsAchievements
    \/ StatsSetCache
    \/ StatsReturn

KeyspaceSpec == Init /\ [][KeyspaceNext]_vars

\* ------------------------------------------------ a store that is silent
\* ConnectionPool(host, port, password, db): no socket_timeout is passed,
\* and the client's default is None, a read that waits without limit
socket_timeout == PyNone

\* the await of a command the store never answers: with a socket timeout
\* the client raises TimeoutError, without one the await does not end
NoReply(then) == IF socket_timeout # PyNone THEN then ELSE "awaiting"

\* get_cache's GET is sent and the store never answers it: a TimeoutError
\* would be logged by get_cache and None returned
GetCacheNoReply(c) ==
    /\ handler_pc[c] = "get_cache"
    /\ handler_pc' = [handler_pc EXCEPT ![c] = NoReply("func")]
    /\ get_failed' = [get_failed EXCEPT ![c] = TRUE]
    /\ UNCHANGED <<redis, call, cache_key, result, raised, calls, invoked,
                   hit_read, wrote, writer, pipeline_vars, inv_vars, api_vars>>

\* set_cache's SET is sent and the store never answers it: a TimeoutError
\* would be logged by set_cache and result returned
SetCacheNoReply(c) ==
    /\ handler_pc[c] = "set_cache"
    /\ IsABCSchema(result[c])
    /\ handler_pc' = [handler_pc EXCEPT ![c] = NoReply("returned")]
    /\ UNCHANGED <<redis, call, cache_key, result, raised, calls, invoked,
                   hit_read, get_failed, wrote, writer, pipeline_vars,
                   inv_vars, api_vars>>

\* concurrent callers on a store that answers, fails or stays silent
TimeoutNext ==
    \/ \E c \in Callers : \E args \in SharedCalls : CacheHandler(c, args)
    \/ \E c \in Callers :
          \/ GetCache(c)
          \/ GetCacheNoReply(c)
          \/ InvokeFunc(c)
          \/ SetCache(c)
          \/ SetCacheNoReply(c)
          \/ Return(c)

TimeoutSpec == Init /\ [][TimeoutNext]_vars

\* ------------------------------------------------------ session_decorator
\* isinstance(v, AsyncSession)
IsAsyncSession(v) == v.kind = "AsyncSession"

\* a test that looks at the positional arguments only
SessionInPositional(args, kwargs) ==
    \E i \in DOMAIN args : IsAsyncSession(args[i])

\* is_session_in_args or is_session_in_kwargs
is_session_in_arguments(args, kwargs) ==
    \/ \E i \in DOMAIN args : IsAsyncSession(args[i])
    \/ \E i \in DOMAIN kwargs : IsAsyncSession(kwargs[i].value)

\* how the caller hands over the session it owns: as third positional
\* argument, as keyword, not at all, or session=None
Hows == {"positional", "keyword", "absent", "keyword_none"}

\* check_user_achievement(achievement, user_id, session): *args
CallArgs(a, u, how) ==
    <<PyStr(<<a>>), PyInt(u)>>
        \o (IF how = "positional" THEN <<AsyncSession>> ELSE << >>)

\* check_user_achievement(achievement, user_id, session): **kwargs
CallKwargs(how) ==
    CASE how = "keyword" -> <<[name |-> "session", value |-> AsyncSession]>>
      [] how = "keyword_none" -> <<[name |-> "session", value |-> PyNone]>>
      [] OTHER -> << >>

\* the row check_user_achievement is about
TxRow == <<tx.user_id, tx.achievement>>

\* a caller that has a session open and nothing pending in it calls the
\* wrapped check_user_achievement
OwnerCall(a, u, how) ==
    /\ tx.pc = "idle"
    /\ tx' = [NoTx EXCEPT !.pc = "decorated", !.achievement = a,
                          !.user_id = u, !.how = how,
                          !.args = CallArgs(a, u, how),
                          !.kwargs = CallKwargs(how)]
    /\ UNCHANGED <<redis, events, req, stats, pipeline_vars, cache_vars>>

\* decorated(*args, **kwargs) up to the call of func: with a session among
\* the arguments func gets the arguments as they are, otherwise a new
\* session is opened and put into kwargs["session"]
Decorated ==
    /\ tx.pc = "decorated"
    /\ tx' = IF is_session_in_arguments(tx.args, tx.kwargs)
             THEN [tx EXCEPT !.pc = "check_existing", !.session = "own"]
             ELSE [tx EXCEPT !.pc = "check_existing", !.session = "new",
                             !.opened = TRUE,
                             !.kwargs = <<[name |-> "session",
                                           value |-> AsyncSession]>>]
    /\ UNCHANGED <<redis, events, req, stats, pipeline_vars, cache_vars>>

\* check_user_achievement: the existence check in the session it was
\* given, or the error of the database
TxCheckExisting ==
    /\ tx.pc = "check_existing"
    /\ \/ LET exists == check_existing(achievements, TxRow)
          IN tx' = [tx EXCEPT !.is_exist = exists,
                              !.pc = IF exists THEN "exit" ELSE "create"]
       \/ tx' = [tx EXCEPT !.pc = "exit", !.raised = "DBError"]
    /\ UNCHANGED <<redis, events, req, stats, pipeline_vars, cache_vars>>

\* check_user_achievement: AchievementRepository(session).create, the
\* INSERT in the session it was given, or the error of the database
TxCreate ==
    /\ tx.pc = "create"
    /\ \/ tx' = IF tx.session = "own"
                THEN [tx EXCEPT !.pc = "exit", !.own = @ \cup {TxRow}]
                ELSE [tx EXCEPT !.pc = "exit", !.new = @ \cup {TxRow}]
       \/ tx' = [tx EXCEPT !.pc = "exit", !.raised = "DBError"]
    /\ UNCHANGED <<redis, events, req, stats, pipeline_vars, cache_vars>>

\* decorated after func: "return await func(*args, **kwargs)" with the
\* caller's session; with its own session the commit, or the rollback and
\* "raise", and the session is closed
DecoratedExit ==
    /\ tx.pc = "exit"
    /\ IF tx.session = "own"
       THEN /\ tx' = [tx EXCEPT !.pc = "owner"]
            /\ achievements' = achievements
       ELSE IF tx.raised = None
       THEN \/ /\ achievements' = CommitRows(achievements, tx.new)
               /\ tx' = [tx EXCEPT !.pc = "owner", !.new = {},
                                   !.commits = TRUE]
            \/ /\ achievements' = achievements
               /\ tx' = [tx EXCEPT !.pc = "owner", !.new = {},
                                   !.raised = "DBError", !.rollbacks = TRUE]
       ELSE /\ achievements' = achievements
            /\ tx' = [tx EXCEPT !.pc = "owner", !.new = {}, !.rollbacks = TRUE]
    /\ UNCHANGED <<redis, events, req, stats, pending, notifications, queue,
                   dispatched, pc, item, scores, achievement, is_exist, err,
                   applied, notified, redo, completed, delta_sum, any_failed,
                   cache_vars>>

\* the caller ends the transaction of its session: commit or rollback
OwnerEnd ==
    /\ tx.pc = "owner"
    /\ \/ /\ achievements' = CommitRows(achievements, tx.own)
          /\ tx' = [tx EXCEPT !.pc = "idle", !.own = {}, !.outcome = "commit"]
       \/ /\ achievements' = achievements
          /\ tx' = [tx EXCEPT !.pc = "idle", !.own = {},
                              !.outcome = "rollback"]
    /\ UNCHANGED <<redis, events, req, stats, pending, notifications, queue,
                   dispatched, pc, item, scores, achievement, is_exist, err,
                   applied, notified, redo, completed, delta_sum, any_failed,
                   cache_vars>>

\* calls of the wrapped function, one at a time
SessionNext ==
    \/ \E a \in AchievementNames : \E u \in UserIds : \E how \in Hows :
          OwnerCall(a, u, how)
    \/ Decorated
    \/ TxCheckExisting
    \/ TxCreate
    \/ DecoratedExit
    \/ OwnerEnd

SessionSpec == Init /\ [][SessionNext]_vars

\* ------------------------------------------------------------------- C21
\* what _generate_handler_key builds the key of a call from
KeyParts(a) == <<a.prefix, a.func.name, a.additional_key, a.user_id>>

\* C21: the key builder is injective: a call never gets the key under which
\* a call with another (prefix, operation name, qualifier, user_id) stored
\* its entry, None and a present value counting as different
C21_KeyInjective ==
    \A c \in Callers :
        (handler_pc[c] # "idle" /\ cache_key[c] \in DOMAIN writer)
            => KeyParts(writer[cache_key[c]]) = KeyParts(call[c])

\* ------------------------------------------------------------------- C22
\* the key the documentation of the builder describes: the user segment for
\* every user_id other than None, the qualifier for every one other than None
ClaimedKey(a) ==
    <<":">> \o a.prefix \o <<":", "/", "/">> \o a.func.name \o <<":">>
    \o (IF a.user_id # PyNone
        THEN <<"u", "s", "e", "r", ":">> \o Format(a.user_id) \o <<":">>
        ELSE << >>)
    \o (IF a.additional_key # PyNone THEN a.additional_key.s ELSE << >>)

\* C22: the key of a call is exactly ":<prefix>://" + "<name>:" +
\* "user:<user_id>:" when user_id is not None (0 included) + the qualifier
\* when it is not None
C22_KeyLayout ==
    \A c \in Callers : handler_pc[c] # "idle" => cache_key[c] = ClaimedKey(call[c])

\* ------------------------------------------------------------------- C23
\* C23: the entry a cache_handler call writes has, right after the write,
\* the remaining ttl the call was given, no expiry when it was given None;
\* an entry without expiry is still in the store after every step of the
\* callers and of the clock
C23_TtlAsGiven ==
    [][/\ \A c \in Callers :
             (handler_pc[c] = "set_cache" /\ wrote'[c])
                 => /\ Present(redis', cache_key[c])
                    /\ redis'[cache_key[c]].ttl = call[c].expire
       /\ \A k \in DOMAIN redis :
             redis[k].ttl = NoExpiry => Present(redis', k)]_vars

\* a call given two seconds has stored its entry; an entry without expiry
\* is in the store next to it
C23_Witness ==
    /\ handler_pc["c1"] = "returned"
    /\ wrote["c1"]
    /\ call["c1"].expire = 2
    /\ Present(redis, cache_key["c1"])
    /\ redis[cache_key["c1"]].ttl = 2
    /\ \E k \in DOMAIN redis : redis[k].ttl = NoExpiry

\* ------------------------------------------------------------------- C25
\* a committed row of table events for the work item
HasEventRow(it) ==
    \E i \in 1..Len(events) :
        /\ events[i].user_id = it.user_id
        /\ events[i].event_type = it.event_type

\* C25: a work item is put on the queue only when the event row of its
\* request is committed, and once the request is over every work item that
\* raised a score has a committed event row
C25_DispatchAfterDurable ==
    /\ [][dispatched' > dispatched
             => \E i \in 1..Len(events) : events[i] = req.row]_vars
    /\ [](\A w \in Workers :
             (applied[w] > 0 /\ req.pc = "idle") => HasEventRow(item[w]))

\* ------------------------------------------------------------------- C29
\* the committed event rows of a user
RowsOf(user_id) ==
    {events[i] : i \in {j \in 1..Len(events) : events[j].user_id = user_id}}

\* the place of a row among the rows of its user, the most recent first
Recency(r) ==
    1 + Cardinality({q \in RowsOf(r.user_id) : q.created_at > r.created_at})

\* C29: the recent events a stats read has read are the event types of the
\* rows of the requested user only, the most recent first, and 5 at most:
\* all of them when the user has 5 or fewer, the 5 most recent otherwise
C29_LastEvents ==
    stats.pc \in {"get_scores", "get_user_achievements", "set_cache"}
        => LET rows == RowsOf(stats.user_id)
               n == Cardinality(rows)
           IN /\ Len(stats.events) = IF n > 5 THEN 5 ELSE n
              /\ \A r \in rows :
                    Recency(r) <= 5 => stats.events[Recency(r)] = r.event_type

\* a user with more than 5 events of two types has had the last 5 read
C29_Witness ==
    /\ stats.pc = "get_scores"
    /\ Cardinality(RowsOf(stats.user_id)) > 5
    /\ Len(stats.events) = 5
    /\ stats.events[1] # stats.events[5]
    /\ events[1].event_type # events[2].event_type

\* ------------------------------------------------------------------- C27
\* the ledger keys user:<id>:scores
ScoreKeys == {create_key(u, SCORES) : u \in UserIds}

\* C27: no key the key builder gives a cache_handler call, no key an entry
\* was stored under by one, and no key of a stats read is a ledger key
C27_CacheKeysOffLedger ==
    /\ \A c \in Callers : handler_pc[c] # "idle" => cache_key[c] \notin ScoreKeys
    /\ \A k \in DOMAIN writer : k \notin ScoreKeys
    /\ stats.pc # "idle" => stats.key \notin ScoreKeys

\* user 1 has a score, a call for user 1 with the qualifier "scores" has
\* stored its entry, and a stats read of user 1 has built its key
C27_Witness ==
    /\ Present(redis, create_key(1, SCORES))
    /\ handler_pc["c1"] = "returned"
    /\ wrote["c1"]
    /\ call["c1"].user_id = PyInt(1)
    /\ call["c1"].additional_key = PyStr(SCORES)
    /\ stats.pc = "get_last_events"
    /\ stats.user_id = 1

\* ------------------------------------------------------------------- C30
\* C30: a stats read does not fail because of the cache: it ends with an
\* error only when the read of the score raised; after a cache read that
\* failed, and whether or not the response could be stored, it returns the
\* response it computed
C30_CacheNeverFailsRead ==
    stats.pc = "raised" => stats.raised = "RedisError"

\* ------------------------------------------------------------------- C26
\* C26: no step of event processing lowers the score of a user, and a step
\* that changes it is the update_scores of a work item of that user with a
\* delta above zero, which is added; this for every level of a work item,
\* zero and negative ones included
C26_ScoresOnlyGrow ==
    [][\A u \in UserIds :
          /\ get_scores(redis', u) >= get_scores(redis, u)
          /\ get_scores(redis', u) # get_scores(redis, u)
                => \E w \in Workers :
                      /\ pc[w] = "update_scores"
                      /\ item[w].user_id = u
                      /\ scores[w] > 0
                      /\ get_scores(redis', u) = get_scores(redis, u) + scores[w]]_vars

\* work items with level -25 (delta -5), -20 (delta 0) and 0 (delta 20) are
\* done or in work after the score was raised
C26_Witness ==
    /\ get_scores(redis, 1) > 0
    /\ item["w1"].event_type = COMPLETE_LEVEL
    /\ item["w1"].level = -25
    /\ pc["w1"] = "check_existing"
    /\ \E it \in completed : it.event_type = COMPLETE_LEVEL /\ it.level \in {-20, 0}

\* ------------------------------------------------------------------- C28
\* C28: check_user_achievement called without a session commits on a normal
\* return: the record it created is a committed row from then on; when a
\* step of it raises, the transaction is rolled back: no row is added to
\* the table, the session holds none, and the task ends with the exception
C28_CommitOrRollback ==
    [][\A w \in Workers :
          /\ (pc[w] = "commit" /\ pc'[w] \in {"notify", "done"})
                => \A p \in Pairs :
                      achievements'[p] =
                          achievements[p] + (IF p \in pending[w] THEN 1 ELSE 0)
          /\ (pc[w] \in {"check_existing", "create", "commit"}
              /\ pc'[w] = "failed")
                => /\ achievements' = achievements
                   /\ pending'[w] = {}
                   /\ err'[w] \in {"IntegrityError", "DBError"}]_vars

\* one task has committed its new record, another one's commit has failed
\* after its INSERT and left no row
C28_Witness ==
    \E w, v \in Workers :
        /\ pc[w] = "failed" /\ err[w] = "DBError" /\ ~is_exist[w]
        /\ achievements[Row(w)] = 0 /\ pending[w] = {}
        /\ pc[v] \in {"notify", "done"} /\ ~is_exist[v]
        /\ achievement[v] # None /\ achievements[Row(v)] = 1

\* ------------------------------------------------------------------- C31
\* caller c has a step to take, the store answering or not
CanProceed(c) ==
    ENABLED (GetCache(c) \/ GetCacheNoReply(c) \/ InvokeFunc(c) \/ SetCache(c)
             \/ SetCacheNoReply(c) \/ Return(c))

\* C31: a store call that is never answered does not block cache_handler:
\* a call in progress always has a step to take, and the call whose read
\* was not answered goes on to invoke the operation
C31_StoreCallTimesOut ==
    /\ [](\A c \in Callers : handler_pc[c] # "idle" => CanProceed(c))
    /\ [][\A c \in Callers :
             (handler_pc[c] = "get_cache" /\ get_failed'[c])
                 => handler_pc'[c] = "func"]_vars

\* ------------------------------------------------------------------- C32
\* C32: when process_event has returned without error for a work item of a
\* known type, table achievements holds a committed row for the user and
\* the achievement of that type
C32_DoneHasRecord ==
    \A w \in Workers :
        (pc[w] = "done" /\ item[w].event_type \in KnownTypes)
            => /\ achievement[w] # None
               /\ achievements[Row(w)] >= 1

\* one task has created and committed the record, another one for the same
\* user and achievement has found it and returned as well
C32_Witness ==
    \E w, v \in Workers :
        /\ w # v /\ Row(w) = Row(v)
        /\ pc[w] = "done" /\ pc[v] = "done"
        /\ is_exist[w] /\ ~is_exist[v] /\ notified[v]
        /\ achievements[Row(w)] = 1

\* ------------------------------------------------------------------- C33
\* the steps of check_user_achievement and the notification after it
AchievementSteps == {"check_existing", "create", "commit", "notify"}

\* C33: process_event applies the increment before the achievement step: a
\* task with a delta above zero is in the achievement step only with its
\* increment applied; a task whose increment raised ends there, with no
\* existence check, no insert and no notification; and when the
\* achievement step raises, the score keeps the increment of the task
C33_IncrementFirst ==
    /\ [](\A w \in Workers :
             /\ (pc[w] \in AchievementSteps /\ scores[w] > 0)
                   => applied[w] = scores[w]
             /\ err[w] = "RedisError"
                   => (applied[w] = 0 /\ pending[w] = {} /\ ~notified[w]))
    /\ [][\A w \in Workers :
             /\ (pc[w] = "update_scores" /\ pc'[w] = "failed")
                   => (err'[w] = "RedisError" /\ redis' = redis)
             /\ pc[w] = "failed" => pc'[w] \in {"failed", "idle"}
             /\ (pc[w] \in AchievementSteps /\ pc'[w] \in {"failed", "idle"})
                   => (redis' = redis /\ applied'[w] = applied[w])
             /\ (pc[w] = "failed" /\ pc'[w] = "idle") => redis' = redis]_vars

\* the commit of a first login's achievement failed after the score was
\* raised by 5: the task has ended with the error and the 5 are in the ledger
C33_Witness ==
    \E w \in Workers :
        /\ pc[w] = "idle" /\ err[w] = "DBError"
        /\ item[w].event_type = LOGIN /\ applied[w] = 5
        /\ get_scores(redis, item[w].user_id) = 5
        /\ achievements[<<item[w].user_id, BEGINNER>>] = 0

\* ------------------------------------------------------------------- C34
\* a complete_level work item whose delta 20 + level is not above zero
NoDelta(it) == it.event_type = COMPLETE_LEVEL /\ 20 + it.level <= 0

\* C34: for complete_level with 20 + level <= 0 the ledger is not called
\* and no score changes, and the Master achievement is handled as for any
\* complete_level: the task goes to the existence check, and when it has
\* returned the record is committed and, if the task created it, notified
C34_AwardWithoutScore ==
    /\ [](\A w \in Workers :
             (pc[w] # "idle" /\ NoDelta(item[w]))
                => /\ pc[w] # "update_scores" /\ applied[w] = 0
                   /\ achievement[w] = MASTER
                   /\ pc[w] = "done"
                         => /\ achievements[<<item[w].user_id, MASTER>>] >= 1
                            /\ ~is_exist[w] => notified[w])
    /\ [][\A w \in Workers :
             /\ (pc[w] = "idle" /\ pc'[w] # "idle" /\ NoDelta(item'[w]))
                   => pc'[w] = "check_existing"
             /\ (Steps(w) /\ NoDelta(item[w])) => redis' = redis]_vars

\* complete_level with level -25 has returned: the user has no score key,
\* the Master record was created by the task and notified
C34_Witness ==
    /\ pc["w1"] = "done" /\ item["w1"].event_type = COMPLETE_LEVEL
    /\ item["w1"].level = -25
    /\ ~Present(redis, ScoreKey(1))
    /\ ~is_exist["w1"] /\ notified["w1"]
    /\ achievements[<<1, MASTER>>] = 1
    /\ notifications[<<1, MASTER>>] = 1

\* ------------------------------------------------------------------- C35
\* C35: the steps of a cache_handler call that ends in a hit leave the
\* store as it was: building the key, the read whose data is validated and
\* returned, and the return keep every entry, its value and its remaining
\* ttl, and the call has written nothing
C35_HitLeavesStore ==
    [][\A c \in Callers :
          /\ (handler_pc[c] = "idle" /\ handler_pc'[c] = "get_cache")
                => redis' = redis
          /\ (handler_pc[c] = "get_cache" /\ handler_pc'[c] = "returned")
                => /\ redis' = redis
                   /\ ~wrote'[c] /\ invoked'[c] = invoked[c]
          /\ (handler_pc[c] = "returned" /\ handler_pc'[c] = "idle")
                => redis' = redis]_vars

\* a call given two seconds has read, one second later, the entry an
\* earlier call of the same arguments wrote: the entry still has its one
\* remaining second
C35_Witness ==
    /\ handler_pc["c1"] = "returned"
    /\ hit_read["c1"] /\ ~wrote["c1"]
    /\ call["c1"].expire = 2
    /\ Present(redis, cache_key["c1"])
    /\ redis[cache_key["c1"]].ttl = 1

\* ------------------------------------------------------------------- C37
\* the caller handed its own session to the wrapped function
SessionPassed == tx.how \in {"positional", "keyword"}

\* C37: in a call of the wrapped function with the caller's session among
\* the arguments the decorator opens no session and neither commits nor
\* rolls back; no step of the decorator or of the function makes a row
\* durable or drops a row pending in the caller's session, and a row the
\* function created is pending there when the call is back at the caller
C37_CallerOwnsOutcome ==
    /\ [](SessionPassed
             => /\ ~tx.opened /\ ~tx.commits /\ ~tx.rollbacks /\ tx.new = {}
                /\ (tx.pc = "owner" /\ tx.raised = None /\ ~tx.is_exist)
                      => TxRow \in tx.own)
    /\ [][(SessionPassed /\ tx.pc \in {"decorated", "check_existing",
                                       "create", "exit"})
             => /\ achievements' = achievements
                /\ tx.own \subseteq tx'.own]_vars

\* the function created the row in the session it was handed as keyword,
\* the caller rolled back: the row is not in the table
C37_Witness ==
    /\ tx.pc = "idle" /\ tx.how = "keyword"
    /\ tx.outcome = "rollback"
    /\ tx.raised = None /\ ~tx.is_exist
    /\ achievements[TxRow] = 0

====
